---- MODULE Spec2Model ----
(***************************************************************************)
(* Model of the telephone <-> speech-model relay.                          *)
(*                                                                         *)
(*  * Tool Executor  (services/supabase-client.js): validatePhone,         *)
(*    validateDate, validateToolArgs, buildRequestBody, executeToolCall.   *)
(*    Specification SpecTool runs one invocation on any input;             *)
(*    SpecToolFair adds the fairness of its timeout timer.                 *)
(*  * Call setup (routes/incoming-call.js) and the two validators called   *)
(*    on their own.  Specification SpecPure makes one such call.           *)
(*  * Media-stream route (routes/media-stream.js): the per-call state      *)
(*    machine driven by the carrier socket, the model socket and timers.   *)
(*    Specification Spec runs one call; SpecFair adds the fairness of the  *)
(*    relay's own timers and awaited calls.                                *)
(*  * Media-stream route of the call-logging, multi-business server.       *)
(*    Specification SpecLog runs one call.                                 *)
(*                                                                         *)
(* Strings that the code inspects character by character are sequences of  *)
(* one-character strings.  JavaScript values that may or may not be        *)
(* strings are records [t, s]: t is the type tag, s the characters.        *)
(***************************************************************************)
EXTENDS Integers, Sequences, FiniteSets, TLC

VARIABLES
    \* ---- process-wide configuration --------------------------------
    configured,      \* config.supabase.configured
    \* ---- one executeToolCall invocation ----------------------------
    tcPc,            \* "idle" | "fetch" | "json" | "returned" | "threw"
    tcName,          \* name argument
    tcArgs,          \* args argument
    tcCaller,        \* callerPhone argument
    tcBody,          \* request body handed to fetch
    tcResp,          \* response whose body is being read
    tcTimer,         \* the timeout timer is pending
    tcResult,        \* value the invocation returned
    tcError,         \* name of the error the catch block caught ("" none)
    fetchCount,      \* fetch() calls made by this invocation
    \* ---- one call on /media-stream ----------------------------------
    carrierOpen,     \* the carrier socket (connection) has not closed
    streamSid,       \* "null" or the stream id
    callerPhone,     \* characters of the caller identifier ('' at first)
    latestMediaTimestamp,
    lastAssistantItem,             \* "null" or an item id
    markQueue,
    responseStartTimestampTwilio,  \* NullTs or a timestamp
    sockets,         \* readyState of every model socket created so far;
                     \* openAiWs is the last one
    reconnectAttempts,
    greetingSent,
    initTimers,      \* pending setTimeout(initializeSession, 100)
    greetTimers,     \* pending setTimeout(sendInitialGreeting, 250)
    reconnectTimers, \* pending setTimeout(connectToOpenAI, delay)
    greeting,        \* sendInitialGreeting: "none" | "lookup" | "done"
    greetingContext, \* the wording the greeting used ("" before it)
    lookupResult,    \* what the greeting's lookup returned (NoLookup: it
                     \* made none)
    pendingCalls,    \* call ids of the tool calls suspended at the backend
    toModel,         \* messages the last step handed to openAiWs.send
    toCarrier,       \* messages the last step handed to connection.send
    lastEvent,       \* the handler that ran last
    lastCall,        \* the tool call the last step handled (NoCall: none)
    lastInput,       \* the fields of the carrier message the last step
                     \* handled (NoInput: none)
    itemMarked,      \* a marker was queued since lastAssistantItem was set
    uncaught,        \* an exception escaped a callback
    greetingCount,   \* greetings delivered to an open model socket
    itemSocket,      \* the socket that delivered lastAssistantItem (0 when
                     \* it is null)
    callSocket,      \* for each suspended tool call, the socket that
                     \* delivered it (0 when the call is not suspended)
    sessionSent,     \* session.update has been delivered on openAiWs
    unacked,         \* marks sent to the carrier that it has not yet
                     \* acknowledged (it acknowledges them in order)
    runFirst,        \* latestMediaTimestamp at the first audio chunk of the
                     \* current run of chunks (NullTs: no run)
    \* ---- one call of a function without state, or one /incoming-call --
    pureFn,          \* "none" or the function that was called
    pureArg,         \* its argument
    pureOut,         \* "none" | "true" | "false" | "markup" | "TypeError"
    pureStr,         \* the caller identifier put in the markup
    \* ---- one call on /media-stream of the call-logging server --------
    clWs,            \* readyState of its one model socket
    clCarrierOpen,   \* the carrier socket has not closed
    clStreamSid,     \* "null" or the stream id
    clCallSid,       \* "null" or the call id
    clCallerPhone,   \* characters of the caller identifier
    clLatestMediaTimestamp,
    clLastAssistantItem,
    clMarkQueue,
    clResponseStartTimestampTwilio,
    clSessionData,   \* sessionData has been created
    clInitTimers,    \* pending setTimeout(initializeSession, 100)
    clInitRuns,      \* initializeSession calls suspended at their awaits
    clGreetTimers,   \* pending setTimeout(sendInitialGreeting, 400)
    clSessionUpdates,\* session.update messages sent on the open socket
    clGreetings,     \* greetings sent on the open socket
    clUncaught,      \* a send raised outside every try block
    clToModel,       \* messages the last step handed to openAiWs.send
    clToCarrier,     \* messages the last step handed to connection.send
    clLastEvent      \* the handler that ran last

toolVars == <<tcPc, tcName, tcArgs, tcCaller, tcBody, tcResp, tcTimer,
              tcResult, tcError, fetchCount>>

relayVars == <<carrierOpen, streamSid, callerPhone, latestMediaTimestamp,
               lastAssistantItem, markQueue, responseStartTimestampTwilio,
               sockets, reconnectAttempts, greetingSent, initTimers,
               greetTimers, reconnectTimers, greeting, greetingContext,
               lookupResult, pendingCalls, toModel, toCarrier, lastEvent,
               lastCall, lastInput, itemMarked, uncaught,
               greetingCount, runFirst, itemSocket, callSocket,
               sessionSent, unacked>>

pureVars == <<pureFn, pureArg, pureOut, pureStr>>

logVars == <<clWs, clCarrierOpen, clStreamSid, clCallSid, clCallerPhone,
             clLatestMediaTimestamp, clLastAssistantItem, clMarkQueue,
             clResponseStartTimestampTwilio, clSessionData, clInitTimers,
             clInitRuns, clGreetTimers, clSessionUpdates, clGreetings,
             clUncaught, clToModel, clToCarrier, clLastEvent>>

vars == <<configured, pureVars, toolVars, relayVars, logVars>>

-----------------------------------------------------------------------------
(* JavaScript values *)

Undefined == [t |-> "undefined", s |-> <<>>]
Null == [t |-> "null", s |-> <<>>]
Str(chars) == [t |-> "string", s |-> chars]
\* a truthy value that is not a string (an object, an array, true, 5)
NonString == [t |-> "object", s |-> <<>>]

Truthy(v) == v.t = "object" \/ (v.t = "string" /\ v.s # <<>>)

\* a || b
OrElse(a, b) == IF Truthy(a) THEN a ELSE b

Digits == {"0", "1", "2", "3", "4", "5", "6", "7", "8", "9"}
NonZeroDigits == Digits \ {"0"}

\* UTF-16 code unit of the characters the model's strings are made of
CharCode(c) ==
    CASE c = " " -> 32 [] c = "(" -> 40 [] c = ")" -> 41 [] c = "+" -> 43
      [] c = "-" -> 45 [] c = "/" -> 47
      [] c = "0" -> 48 [] c = "1" -> 49 [] c = "2" -> 50 [] c = "3" -> 51
      [] c = "4" -> 52 [] c = "5" -> 53 [] c = "6" -> 54 [] c = "7" -> 55
      [] c = "8" -> 56 [] c = "9" -> 57
      [] c = "<" -> 60 [] c = ">" -> 62
      [] c = "a" -> 97 [] c = "b" -> 98 [] c = "c" -> 99 [] c = "d" -> 100
      [] c = "e" -> 101 [] c = "n" -> 110 [] c = "o" -> 111 [] c = "t" -> 116
      [] OTHER -> 120

\* a > b on two strings: lexicographic order of the code units
RECURSIVE StrGreater(_, _)
StrGreater(a, b) ==
    IF a = <<>> THEN FALSE
    ELSE IF b = <<>> THEN TRUE
    ELSE IF CharCode(Head(a)) # CharCode(Head(b))
         THEN CharCode(Head(a)) > CharCode(Head(b))
         ELSE StrGreater(Tail(a), Tail(b))

-----------------------------------------------------------------------------
(* services/supabase-client.js : validators *)

\* the phone pattern with \d for [1-9]: /^\+?\d{7,15}$/
PHONE_REGEX_AnyFirstDigit(s) ==
    LET body == IF Len(s) > 0 /\ s[1] = "+" THEN Tail(s) ELSE s
    IN  /\ Len(body) >= 7
        /\ Len(body) <= 15
        /\ \A i \in 1..Len(body) : body[i] \in Digits

\* /^\+?[1-9]\d{6,14}$/.test(s)
PHONE_REGEX(s) ==
    LET body == IF Len(s) > 0 /\ s[1] = "+" THEN Tail(s) ELSE s
    IN  /\ Len(body) >= 7
        /\ Len(body) <= 15
        /\ body[1] \in NonZeroDigits
        /\ \A i \in 2..Len(body) : body[i] \in Digits

\* the date pattern without its end anchor: /^\d{4}-\d{2}-\d{2}/
DATE_REGEX_NoEndAnchor(s) ==
    /\ Len(s) >= 10
    /\ \A i \in {1, 2, 3, 4, 6, 7, 9, 10} : s[i] \in Digits
    /\ s[5] = "-"
    /\ s[8] = "-"

\* /^\d{4}-\d{2}-\d{2}$/.test(s)
DATE_REGEX(s) ==
    /\ Len(s) = 10
    /\ \A i \in {1, 2, 3, 4, 6, 7, 9, 10} : s[i] \in Digits
    /\ s[5] = "-"
    /\ s[8] = "-"

\* \s of the characters the model's strings are made of
Whitespace == {" ", "\t", "\n"}

\* phone.replace(/[\s\-()]/g, '')
StripPhone(s) ==
    SelectSeq(s, LAMBDA c : c \notin Whitespace \cup {"-", "(", ")"})

\* validatePhone raises TypeError: a truthy non-string has no replace()
validatePhoneThrows(phone) == Truthy(phone) /\ phone.t # "string"

validatePhone(phone) ==
    IF ~Truthy(phone) THEN FALSE
    ELSE PHONE_REGEX(StripPhone(phone.s))

\* RegExp.test converts its argument to a string; no non-string of the
\* model converts to a string of the form dddd-dd-dd
validateDate(date) ==
    IF ~Truthy(date) THEN FALSE
    ELSE date.t = "string" /\ DATE_REGEX(date.s)

-----------------------------------------------------------------------------
(* services/supabase-client.js : argument validation and request body *)

ToolNames ==
    {"lookup_patient", "check_availability", "book_appointment",
     "cancel_appointment", "get_patient_appointments"}

\* the arguments object: JSON.parse may yield null (isNull) or an object,
\* whose missing properties read as undefined
EmptyArgs ==
    [isNull |-> FALSE, phone |-> Undefined, start_date |-> Undefined,
     end_date |-> Undefined, patient_name |-> Undefined,
     patient_phone |-> Undefined, appointment_date |-> Undefined,
     reason |-> Undefined, appointment_id |-> Undefined]

ArgsNull == [EmptyArgs EXCEPT !.isNull = TRUE]

\* outcome of validateToolArgs: it raises, or returns error ("" is null)
NoError == [throws |-> FALSE, error |-> ""]
Invalid(msg) == [throws |-> FALSE, error |-> msg]
Raises == [throws |-> TRUE, error |-> ""]

\* if (phone && !validatePhone(phone)) return 'Invalid phone number format.';
PhoneRule(phone, rest) ==
    IF ~Truthy(phone) THEN rest
    ELSE IF validatePhoneThrows(phone) THEN Raises
    ELSE IF ~validatePhone(phone) THEN Invalid("Invalid phone number format.")
    ELSE rest

\* validateToolArgs without the comparison of the two dates
validateToolArgs_NoOrderCheck(name, args, caller) ==
    CASE name = "lookup_patient" ->
           IF args.isNull THEN Raises
           ELSE PhoneRule(OrElse(args.phone, caller), NoError)
      [] name = "check_availability" ->
           IF args.isNull THEN Raises
           ELSE IF ~validateDate(args.start_date) \/ ~validateDate(args.end_date)
                THEN Invalid("Invalid date format. Please use YYYY-MM-DD.")
           ELSE NoError
      [] name = "book_appointment" ->
           IF args.isNull THEN Raises
           ELSE PhoneRule(OrElse(args.patient_phone, caller),
                    IF \/ ~Truthy(args.patient_name)
                       \/ ~Truthy(args.appointment_date)
                       \/ ~Truthy(args.reason)
                    THEN Invalid("Missing required booking details.")
                    ELSE NoError)
      [] name = "cancel_appointment" ->
           IF args.isNull THEN Raises
           ELSE IF ~Truthy(args.appointment_id)
                THEN Invalid("Missing appointment ID.")
           ELSE NoError
      [] name = "get_patient_appointments" ->
           IF args.isNull THEN Raises
           ELSE PhoneRule(OrElse(args.phone, caller), NoError)
      [] OTHER -> NoError

validateToolArgs(name, args, caller) ==
    CASE name = "lookup_patient" ->
           IF args.isNull THEN Raises
           ELSE PhoneRule(OrElse(args.phone, caller), NoError)
      [] name = "check_availability" ->
           IF args.isNull THEN Raises
           ELSE IF ~validateDate(args.start_date) \/ ~validateDate(args.end_date)
                THEN Invalid("Invalid date format. Please use YYYY-MM-DD.")
           ELSE IF StrGreater(args.start_date.s, args.end_date.s)
                THEN Invalid("Start date must be before or equal to end date.")
           ELSE NoError
      [] name = "book_appointment" ->
           IF args.isNull THEN Raises
           ELSE PhoneRule(OrElse(args.patient_phone, caller),
                    IF \/ ~Truthy(args.patient_name)
                       \/ ~Truthy(args.appointment_date)
                       \/ ~Truthy(args.reason)
                    THEN Invalid("Missing required booking details.")
                    ELSE NoError)
      [] name = "cancel_appointment" ->
           IF args.isNull THEN Raises
           ELSE IF ~Truthy(args.appointment_id)
                THEN Invalid("Missing appointment ID.")
           ELSE NoError
      [] name = "get_patient_appointments" ->
           IF args.isNull THEN Raises
           ELSE PhoneRule(OrElse(args.phone, caller), NoError)
      [] OTHER -> NoError

\* config.business.id
BusinessId == "business"

\* the body of a request; action "" means the body has no action property,
\* known = FALSE is the null that buildRequestBody returns by default
NoBody ==
    [known |-> FALSE, action |-> "", phone |-> Undefined, message |-> "",
     from |-> Undefined, to |-> Undefined, name |-> Undefined,
     appointment_date |-> Undefined, symptoms |-> Undefined,
     appointment_id |-> Undefined, caller_phone |-> Undefined,
     business_id |-> BusinessId]

\* buildRequestBody whose default case builds a lookup instead of null
buildRequestBody_DefaultLookup(name, args, caller) ==
    [NoBody EXCEPT !.known = TRUE, !.action = "lookup_patient",
                   !.phone = caller]

buildRequestBody(name, args, caller) ==
    CASE name = "lookup_patient" ->
           [NoBody EXCEPT !.known = TRUE, !.action = "lookup_patient",
                          !.phone = OrElse(args.phone, caller)]
      [] name = "check_availability" ->
           [NoBody EXCEPT !.known = TRUE, !.message = "Check availability",
                          !.from = args.start_date, !.to = args.end_date,
                          !.caller_phone = caller]
      [] name = "book_appointment" ->
           [NoBody EXCEPT !.known = TRUE, !.name = args.patient_name,
                          !.phone = OrElse(args.patient_phone, caller),
                          !.appointment_date = args.appointment_date,
                          !.symptoms = args.reason]
      [] name = "cancel_appointment" ->
           [NoBody EXCEPT !.known = TRUE, !.message = "Cancel appointment",
                          !.appointment_id = args.appointment_id,
                          !.caller_phone = caller]
      [] name = "get_patient_appointments" ->
           [NoBody EXCEPT !.known = TRUE,
                          !.message = "What are my upcoming appointments?",
                          !.caller_phone = OrElse(args.phone, caller)]
      [] OTHER -> NoBody

-----------------------------------------------------------------------------
(* services/supabase-client.js : executeToolCall *)

\* a returned value: error is its error property ("" when it has none),
\* payload what the backend's JSON carried ("none" for a local error)
ErrorResult(msg) == [error |-> msg, payload |-> "none", status |-> 0]
NoResult == [error |-> "", payload |-> "none", status |-> 0]

\* what the backend may answer: status and parsed body
HttpStatuses == {200, 500}
BackendBodies == {"found", "notfound", "error", "notjson"}
NoResponse == [status |-> 0, body |-> "none"]

BackendResult(resp) ==
    [error |-> IF resp.body = "error" THEN "backend error" ELSE "",
     payload |-> resp.body, status |-> resp.status]

\* executeToolCall that validates before it checks the configuration
executeToolCallSync_ValidateFirst(name, args, caller, isConfigured) ==
    LET v == validateToolArgs(name, args, caller) IN
    IF v.throws
    THEN [step |-> "throw", body |-> NoBody, result |-> NoResult]
    ELSE IF v.error # ""
    THEN [step |-> "return", body |-> NoBody, result |-> ErrorResult(v.error)]
    ELSE IF ~isConfigured
    THEN [step |-> "return", body |-> NoBody,
          result |-> ErrorResult("Backend not configured. Please contact support.")]
    ELSE LET body == buildRequestBody(name, args, caller) IN
         IF ~body.known
         THEN [step |-> "return", body |-> NoBody,
               result |-> ErrorResult("Unknown tool")]
         ELSE [step |-> "fetch", body |-> body, result |-> NoResult]

\* executeToolCall up to its first await: the configuration check, the
\* validation and the request body.  step is "return", "throw" or "fetch".
executeToolCallSync(name, args, caller, isConfigured) ==
    IF ~isConfigured
    THEN [step |-> "return", body |-> NoBody,
          result |-> ErrorResult("Backend not configured. Please contact support.")]
    ELSE LET v == validateToolArgs(name, args, caller) IN
         IF v.throws
         THEN [step |-> "throw", body |-> NoBody, result |-> NoResult]
         ELSE IF v.error # ""
         THEN [step |-> "return", body |-> NoBody, result |-> ErrorResult(v.error)]
         ELSE LET body == buildRequestBody(name, args, caller) IN
              IF ~body.known
              THEN [step |-> "return", body |-> NoBody,
                    result |-> ErrorResult("Unknown tool")]
              ELSE [step |-> "fetch", body |-> body, result |-> NoResult]

\* ---- inputs ---------------------------------------------------------
PhoneGood == <<"+", "1", "2", "0", "2", "5", "5", "5", "1", "2", "3", "4">>
PhoneFormatted == <<"(", "2", "0", "2", ")", " ", "5", "5", "5", "-", "1", "2", "3", "4">>
PhoneLeadingZero == <<"0", "1", "2", "3", "4", "5", "6", "7", "8", "9">>
PhoneLetters == <<"a", "b", "c">>
Date15 == <<"2", "0", "2", "5", "-", "0", "1", "-", "1", "5">>
Date20 == <<"2", "0", "2", "5", "-", "0", "1", "-", "2", "0">>
DateSlashes == <<"2", "0", "2", "5", "/", "0", "1", "/", "1", "5">>
DateWords == <<"n", "o", "t", "-", "a", "-", "d", "a", "t", "e">>
SomeText == <<"t", "e", "x", "t">>

PhoneInputs ==
    {Undefined, Str(<<>>), Str(PhoneGood), Str(PhoneFormatted),
     Str(PhoneLeadingZero), Str(PhoneLetters), NonString}
DateInputs ==
    {Undefined, Str(Date15), Str(Date20), Str(DateSlashes), Str(DateWords),
     NonString}
TextInputs == {Undefined, Str(SomeText)}

ArgInputs ==
    {ArgsNull}
    \cup {[EmptyArgs EXCEPT !.phone = p] : p \in PhoneInputs}
    \cup {[EmptyArgs EXCEPT !.start_date = a, !.end_date = b] :
             a \in DateInputs, b \in DateInputs}
    \cup {[EmptyArgs EXCEPT !.patient_name = n, !.patient_phone = p,
                            !.appointment_date = d, !.reason = r] :
             n \in TextInputs, p \in PhoneInputs, d \in TextInputs,
             r \in TextInputs}
    \cup {[EmptyArgs EXCEPT !.appointment_id = a] : a \in TextInputs}

NameInputs == ToolNames \cup {"unknown_tool"}

\* the caller identifier is always a string (a stream parameter or '')
CallerInputs == {Str(<<>>), Str(PhoneGood), Str(PhoneLetters)}

\* ---- actions --------------------------------------------------------
\* the call, up to the first await
Invoke(name, args, caller) ==
    /\ tcPc = "idle"
    /\ LET r == executeToolCallSync(name, args, caller, configured) IN
       /\ tcPc' = CASE r.step = "return" -> "returned"
                    [] r.step = "throw" -> "threw"
                    [] OTHER -> "fetch"
       /\ tcBody' = r.body
       /\ tcResult' = r.result
       \* setTimeout(() => controller.abort(), timeoutMs); fetch(...)
       /\ tcTimer' = (r.step = "fetch")
       /\ fetchCount' = IF r.step = "fetch" THEN 1 ELSE 0
    /\ tcName' = name
    /\ tcArgs' = args
    /\ tcCaller' = caller
    /\ tcResp' = NoResponse
    /\ tcError' = ""
    /\ UNCHANGED <<configured, logVars, pureVars, relayVars>>

\* await fetch(...) resolves with a response
FetchResolve(status, body) ==
    /\ tcPc = "fetch"
    /\ tcPc' = "json"
    /\ tcResp' = [status |-> status, body |-> body]
    /\ UNCHANGED <<configured, logVars, pureVars, relayVars, tcName, tcArgs, tcCaller, tcBody, tcTimer,
                   tcResult, tcError, fetchCount>>

\* await response.json() resolves: return result; finally clearTimeout
JsonResolve ==
    /\ tcPc = "json"
    /\ tcResp.body # "notjson"
    /\ tcPc' = "returned"
    /\ tcResult' = BackendResult(tcResp)
    /\ tcTimer' = FALSE
    /\ UNCHANGED <<configured, logVars, pureVars, relayVars, tcName, tcArgs, tcCaller, tcBody, tcResp,
                   tcError, fetchCount>>

FailedResult == ErrorResult("Failed to execute action. Please try again.")
TimedOutResult == ErrorResult("Request timed out. Please try again.")

\* a catch block without the AbortError branch
catchBlock_NoAbortBranch(errorName) == FailedResult

\* the catch block: the result for a caught error, by the error's name
catchBlock(errorName) ==
    IF errorName = "AbortError" THEN TimedOutResult ELSE FailedResult

\* await response.json() rejects with a SyntaxError (the body is not JSON)
JsonReject ==
    /\ tcPc = "json"
    /\ tcResp.body = "notjson"
    /\ tcPc' = "returned"
    /\ tcError' = "SyntaxError"
    /\ tcResult' = catchBlock("SyntaxError")
    /\ tcTimer' = FALSE
    /\ UNCHANGED <<configured, logVars, pureVars, relayVars, tcName, tcArgs, tcCaller, tcBody, tcResp,
                   fetchCount>>

\* await fetch(...) rejects with a TypeError: network failure
FetchReject ==
    /\ tcPc = "fetch"
    /\ tcPc' = "returned"
    /\ tcError' = "TypeError"
    /\ tcResult' = catchBlock("TypeError")
    /\ tcTimer' = FALSE
    /\ UNCHANGED <<configured, logVars, pureVars, relayVars, tcName, tcArgs, tcCaller, tcBody, tcResp,
                   fetchCount>>

\* a timeout that is cancelled as soon as fetch resolves: it no longer
\* covers the reading of the response body
TimeoutFire_FetchOnly ==
    /\ tcPc = "fetch"
    /\ tcTimer
    /\ tcPc' = "returned"
    /\ tcError' = "AbortError"
    /\ tcResult' = TimedOutResult
    /\ tcTimer' = FALSE
    /\ UNCHANGED <<configured, logVars, pureVars, relayVars, tcName, tcArgs, tcCaller, tcBody, tcResp,
                   fetchCount>>

\* the timeout fires: controller.abort() rejects the pending await with an
\* AbortError
TimeoutFire ==
    /\ tcPc \in {"fetch", "json"}
    /\ tcTimer
    /\ tcPc' = "returned"
    /\ tcError' = "AbortError"
    /\ tcResult' = catchBlock("AbortError")
    /\ tcTimer' = FALSE
    /\ UNCHANGED <<configured, logVars, pureVars, relayVars, tcName, tcArgs, tcCaller, tcBody, tcResp,
                   fetchCount>>

InitPure ==
    /\ pureFn = "none"
    /\ pureArg = Undefined
    /\ pureOut = "none"
    /\ pureStr = <<>>

InitTool ==
    /\ tcPc = "idle"
    /\ tcName = ""
    /\ tcArgs = EmptyArgs
    /\ tcCaller = Str(<<>>)
    /\ tcBody = NoBody
    /\ tcResp = NoResponse
    /\ tcTimer = FALSE
    /\ tcResult = NoResult
    /\ tcError = ""
    /\ fetchCount = 0

-----------------------------------------------------------------------------
(* routes/media-stream.js : one call *)

\* null, for the two variables that hold a timestamp or null
NullTs == -1

MAX_RECONNECTS == 2
\* the delays of the three setTimeout calls, in milliseconds
INIT_DELAY == 100
GREETING_DELAY == 250
RECONNECT_DELAY == 500

\* bounds of the model
MaxTs == 1          \* carrier timestamps are 0..MaxTs
MaxMarks == 2       \* markQueue holds at most MaxMarks markers, and the
                    \* carrier at most MaxMarks unacknowledged marks
MaxSockets == 4     \* model sockets created in one call

StreamSids == {"MZ1"}
ItemIds == {"item1"}
CallIds == {"call1"}
\* the caller identifier attached by the call-setup markup
CallerParams == {<<>>, PhoneGood, PhoneLeadingZero}
\* close codes of a model socket: normal, no status received, abnormal
CloseCodes == {1000, 1005, 1006}

openAiWs == Len(sockets)
readyState == sockets[openAiWs]

\* what send() of the ws package does by readyState: it transmits on an
\* open socket, raises on a connecting one, and drops the data of a closing
\* or closed one
SendOutcome(state) ==
    CASE state = "OPEN" -> "sent"
      [] state = "CONNECTING" -> "throws"
      [] OTHER -> "dropped"

\* a message handed to openAiWs.send
ModelMsg(type, item, ms, call) ==
    [type |-> type, ws |-> openAiWs, delivered |-> readyState = "OPEN",
     item_id |-> item, audio_end_ms |-> ms, call_id |-> call]

\* a message handed to connection.send
CarrierMsg(event) ==
    [event |-> event, streamSid |-> streamSid, delivered |-> carrierOpen]

\* !responseStartTimestampTwilio: null and 0 are both falsy
IsUnset(ts) == ts = NullTs \/ ts = 0

\* the guard of handleSpeechStartedEvent, without the marker test
ShouldInterrupt_IgnoresQueue == responseStartTimestampTwilio # NullTs

\* markQueue.length > 0 && responseStartTimestampTwilio !== null
ShouldInterrupt ==
    Len(markQueue) > 0 /\ responseStartTimestampTwilio # NullTs

\* the guard of the close handler with <= for <
ShouldReconnect_OffByOne(code) ==
    code # 1000 /\ reconnectAttempts <= MAX_RECONNECTS

\* the guard of the close handler without the test of the code
ShouldReconnect_AnyCode(code) == reconnectAttempts < MAX_RECONNECTS

\* code !== 1000 && reconnectAttempts < MAX_RECONNECTS
ShouldReconnect(code) ==
    code # 1000 /\ reconnectAttempts < MAX_RECONNECTS

\* the timers fire in the order of their expiry: the reconnect timer is set
\* after, and runs longer than, any initializeSession or greeting timer
\* still pending
ReconnectDue ==
    (INIT_DELAY + GREETING_DELAY < RECONNECT_DELAY) =>
        (initTimers = 0 /\ greetTimers = 0)

\* lastInput of a step that handled no carrier message with fields
NoInput == [streamSid |-> "null", callerPhone |-> <<>>, timestamp |-> NullTs]

\* lastCall of a step that handled no tool call
NoCall == [call_id |-> "null", outcome |-> "none"]

GreetingItem == ModelMsg("conversation.item.create:message", "null", NullTs, "null")
ResponseCreate == ModelMsg("response.create", "null", NullTs, "null")
FunctionOutput(call) ==
    ModelMsg("conversation.item.create:function_call_output", "null", NullTs, call)

\* ---- model socket -----------------------------------------------------
\* openAiWs.on('open') of socket k
WsOpen(k) ==
    /\ sockets[k] = "CONNECTING"
    /\ sockets' = [sockets EXCEPT ![k] = "OPEN"]
    /\ initTimers' = initTimers + 1
    /\ toModel' = <<>>
    /\ toCarrier' = <<>>
    /\ lastEvent' = "open"
    /\ lastInput' = NoInput
    /\ lastCall' = NoCall
    /\ UNCHANGED <<configured, logVars, pureVars, toolVars, unacked, sessionSent, itemSocket, callSocket, itemMarked, lookupResult, carrierOpen, streamSid, callerPhone,
                   latestMediaTimestamp, lastAssistantItem, markQueue,
                   responseStartTimestampTwilio, reconnectAttempts,
                   greetingSent, greetTimers, reconnectTimers, greeting,
                   greetingContext, pendingCalls, uncaught, greetingCount,
                   runFirst>>

\* a handler that schedules the reconnection on an event of a socket that
\* has not closed (as the 'error' event would be)
WsClose_SocketStaysOpen(k, code) ==
    /\ sockets[k] \in {"CONNECTING", "OPEN", "CLOSING"}
    /\ sockets' = sockets
    /\ IF ShouldReconnect(code)
       THEN /\ reconnectAttempts' = reconnectAttempts + 1
            /\ reconnectTimers' = reconnectTimers + 1
       ELSE UNCHANGED <<reconnectAttempts, reconnectTimers>>
    /\ toModel' = <<>>
    /\ toCarrier' = <<>>
    /\ lastEvent' = IF code = 1000 THEN "close_normal" ELSE "close_abnormal"
    /\ lastInput' = NoInput
    /\ lastCall' = NoCall
    /\ UNCHANGED <<configured, logVars, pureVars, toolVars, unacked, sessionSent, itemSocket, callSocket, itemMarked, lookupResult, carrierOpen, streamSid, callerPhone,
                   latestMediaTimestamp, lastAssistantItem, markQueue,
                   responseStartTimestampTwilio, greetingSent, initTimers,
                   greetTimers, greeting, greetingContext, pendingCalls,
                   uncaught, greetingCount, runFirst>>

\* openAiWs.on('close') of socket k
WsClose(k, code) ==
    /\ sockets[k] \in {"CONNECTING", "OPEN", "CLOSING"}
    /\ sockets' = [sockets EXCEPT ![k] = "CLOSED"]
    /\ IF ShouldReconnect(code)
       THEN /\ reconnectAttempts' = reconnectAttempts + 1
            /\ reconnectTimers' = reconnectTimers + 1
       ELSE UNCHANGED <<reconnectAttempts, reconnectTimers>>
    /\ toModel' = <<>>
    /\ toCarrier' = <<>>
    /\ lastEvent' = IF code = 1000 THEN "close_normal" ELSE "close_abnormal"
    /\ lastInput' = NoInput
    /\ lastCall' = NoCall
    /\ UNCHANGED <<configured, logVars, pureVars, toolVars, unacked, sessionSent, itemSocket, callSocket, itemMarked, lookupResult, carrierOpen, streamSid, callerPhone,
                   latestMediaTimestamp, lastAssistantItem, markQueue,
                   responseStartTimestampTwilio, greetingSent, initTimers,
                   greetTimers, greeting, greetingContext, pendingCalls,
                   uncaught, greetingCount, runFirst>>

\* the reconnect timer: connectToOpenAI()
ReconnectTimerFire ==
    /\ reconnectTimers > 0
    /\ ReconnectDue
    /\ Len(sockets) < MaxSockets
    /\ reconnectTimers' = reconnectTimers - 1
    /\ sockets' = Append(sockets, "CONNECTING")
    /\ toModel' = <<>>
    /\ toCarrier' = <<>>
    /\ lastEvent' = "connect"
    /\ lastInput' = NoInput
    /\ lastCall' = NoCall
    /\ sessionSent' = FALSE
    /\ UNCHANGED <<configured, logVars, pureVars, toolVars, unacked, itemSocket, callSocket, itemMarked, lookupResult, carrierOpen, streamSid, callerPhone,
                   latestMediaTimestamp, lastAssistantItem, markQueue,
                   responseStartTimestampTwilio, reconnectAttempts,
                   greetingSent, initTimers, greetTimers, greeting,
                   greetingContext, pendingCalls, uncaught, greetingCount,
                   runFirst>>

\* the timer set on open: initializeSession
InitTimerFire ==
    /\ initTimers > 0
    /\ initTimers' = initTimers - 1
    /\ IF SendOutcome(readyState) = "throws"
       THEN /\ toModel' = <<>>
            /\ uncaught' = TRUE
            /\ UNCHANGED <<greetingSent, greetTimers>>
       ELSE /\ toModel' = <<ModelMsg("session.update", "null", NullTs, "null")>>
            /\ greetingSent' = TRUE
            /\ greetTimers' = IF greetingSent THEN greetTimers ELSE greetTimers + 1
            /\ UNCHANGED uncaught
    /\ toCarrier' = <<>>
    /\ lastEvent' = "initializeSession"
    /\ lastInput' = NoInput
    /\ lastCall' = NoCall
    /\ sessionSent' = (sessionSent \/ readyState = "OPEN")
    /\ UNCHANGED <<configured, logVars, pureVars, toolVars, unacked, itemSocket, callSocket, itemMarked, lookupResult, carrierOpen, streamSid, callerPhone,
                   latestMediaTimestamp, lastAssistantItem, markQueue,
                   responseStartTimestampTwilio, sockets, reconnectAttempts,
                   reconnectTimers, greeting, greetingContext, pendingCalls,
                   greetingCount, runFirst>>

\* what executeToolCall('lookup_patient', ...) may return to the greeting:
\* found and profile are the truthiness of the result's two properties
NoLookup == [kind |-> "none", found |-> FALSE, profile |-> FALSE]
\* { error: ... }: a validation error, a timeout, a failed request, an error
\* answer of the backend
ErrorLookup == [kind |-> "error", found |-> FALSE, profile |-> FALSE]
\* the backend answered with the JSON text null
NullLookup == [kind |-> "null", found |-> FALSE, profile |-> FALSE]
\* { found: true, profile: { first_name, last_name } }
ProfileLookup == [kind |-> "profile", found |-> TRUE, profile |-> TRUE]

\* the backend's action lookup_patient: patient is whether a row of the
\* profiles table has the phone number.  Its answer for a patient is
\* { found: true, patient_id, name, phone, email }
lookup_patient(patient) ==
    [kind |-> "backend", found |-> patient, profile |-> FALSE]

LookupResults ==
    {lookup_patient(patient) : patient \in BOOLEAN}
    \cup {ErrorLookup, NullLookup, ProfileLookup}

\* the end of sendInitialGreeting: the two sends, in an async function
SendGreeting(context, result) ==
    /\ greeting' = "done"
    /\ greetingContext' = context
    /\ lookupResult' = result
    /\ IF SendOutcome(readyState) = "throws"
       THEN /\ toModel' = <<>>
            /\ uncaught' = TRUE
            /\ UNCHANGED greetingCount
       ELSE /\ toModel' = <<GreetingItem, ResponseCreate>>
            /\ greetingCount' =
                  IF readyState = "OPEN" THEN greetingCount + 1 ELSE greetingCount
            /\ UNCHANGED uncaught

\* the greeting's own executeToolCall('lookup_patient', {phone}, callerPhone)
GreetingLookup ==
    executeToolCallSync("lookup_patient",
                        [EmptyArgs EXCEPT !.phone = Str(callerPhone)],
                        Str(callerPhone), configured)

\* greetingContext by the lookup's result; reading a property of null
\* raises and the catch block words the greeting
LookupWording(result) ==
    IF result.kind = "null" THEN "could_not_look_up"
    ELSE IF result.found /\ result.profile THEN "named"
    ELSE "not_in_system"

\* the greeting timer: sendInitialGreeting up to its await, or to its end
GreetTimerFire ==
    /\ greetTimers > 0
    /\ greetTimers' = greetTimers - 1
    /\ IF callerPhone # <<>> /\ configured
       THEN IF GreetingLookup.step = "fetch"
            THEN /\ greeting' = "lookup"
                 /\ toModel' = <<>>
                 /\ UNCHANGED <<greetingContext, lookupResult, uncaught,
                                greetingCount>>
            ELSE SendGreeting(LookupWording(ErrorLookup), ErrorLookup)
       ELSE SendGreeting("generic", NoLookup)
    /\ toCarrier' = <<>>
    /\ lastEvent' = "sendInitialGreeting"
    /\ lastInput' = NoInput
    /\ lastCall' = NoCall
    /\ UNCHANGED <<configured, logVars, pureVars, toolVars, unacked, sessionSent, itemSocket, callSocket, itemMarked, carrierOpen, streamSid, callerPhone,
                   latestMediaTimestamp, lastAssistantItem, markQueue,
                   responseStartTimestampTwilio, sockets, reconnectAttempts,
                   greetingSent, initTimers, reconnectTimers, pendingCalls,
                   runFirst>>

\* the greeting's lookup returns result
GreetingLookupDone(result) ==
    /\ greeting = "lookup"
    /\ SendGreeting(LookupWording(result), result)
    /\ toCarrier' = <<>>
    /\ lastEvent' = "greetingLookupDone"
    /\ lastInput' = NoInput
    /\ lastCall' = NoCall
    /\ UNCHANGED <<configured, logVars, pureVars, toolVars, unacked, sessionSent, itemSocket, callSocket, itemMarked, carrierOpen, streamSid, callerPhone,
                   latestMediaTimestamp, lastAssistantItem, markQueue,
                   responseStartTimestampTwilio, sockets, reconnectAttempts,
                   greetingSent, initTimers, greetTimers, reconnectTimers,
                   pendingCalls, runFirst>>

\* a model message can be delivered on socket k
Receiving(k) == sockets[k] \in {"OPEN", "CLOSING"}

\* response.audio.delta with a payload; item is its item_id or "null"
AudioDelta(k, item) ==
    /\ Receiving(k)
    /\ streamSid # "null" => Len(markQueue) < MaxMarks
    /\ (streamSid # "null" /\ carrierOpen) => unacked < MaxMarks
    /\ responseStartTimestampTwilio' =
          IF IsUnset(responseStartTimestampTwilio)
          THEN latestMediaTimestamp ELSE responseStartTimestampTwilio
    /\ lastAssistantItem' = IF item # "null" THEN item ELSE lastAssistantItem
    \* sendMark
    /\ IF streamSid # "null"
       THEN /\ toCarrier' = <<CarrierMsg("media"), CarrierMsg("mark")>>
            /\ markQueue' = Append(markQueue, "responsePart")
       ELSE /\ toCarrier' = <<CarrierMsg("media")>>
            /\ UNCHANGED markQueue
    /\ runFirst' =
          IF item = "null" \/ streamSid = "null" THEN NullTs
          ELSE IF runFirst # NullTs THEN runFirst
          ELSE IF markQueue = <<>> THEN latestMediaTimestamp
          ELSE NullTs
    /\ toModel' = <<>>
    /\ itemMarked' = IF lastAssistantItem' = "null" THEN FALSE
                     ELSE IF streamSid # "null" THEN TRUE
                     ELSE IF item # "null" THEN FALSE
                     ELSE itemMarked
    /\ lastEvent' = "response.audio.delta"
    /\ lastInput' = NoInput
    /\ lastCall' = NoCall
    /\ itemSocket' = IF lastAssistantItem' = "null" THEN 0
                     ELSE IF item # "null" THEN k ELSE itemSocket
    /\ unacked' = IF streamSid # "null" /\ carrierOpen
                  THEN unacked + 1 ELSE unacked
    /\ UNCHANGED <<configured, logVars, pureVars, toolVars, sessionSent, callSocket, lookupResult, carrierOpen, streamSid, callerPhone,
                   latestMediaTimestamp, sockets, reconnectAttempts,
                   greetingSent, initTimers, greetTimers, reconnectTimers,
                   greeting, greetingContext, pendingCalls, uncaught,
                   greetingCount>>

\* the three assignments that end handleSpeechStartedEvent, without the
\* second
Interrupted_KeepsItem ==
    /\ markQueue' = <<>>
    /\ UNCHANGED lastAssistantItem
    /\ responseStartTimestampTwilio' = NullTs

\* the three assignments that end handleSpeechStartedEvent
Interrupted ==
    /\ markQueue' = <<>>
    /\ lastAssistantItem' = "null"
    /\ responseStartTimestampTwilio' = NullTs

\* input_audio_buffer.speech_started: handleSpeechStartedEvent; a send that
\* raises is caught by the message handler and ends the handler there
SpeechStarted(k) ==
    /\ Receiving(k)
    /\ IF ~ShouldInterrupt
       THEN /\ toModel' = <<>>
            /\ toCarrier' = <<>>
            /\ UNCHANGED <<markQueue, lastAssistantItem,
                           responseStartTimestampTwilio>>
       ELSE IF lastAssistantItem # "null" /\ SendOutcome(readyState) = "throws"
       THEN /\ toModel' = <<>>
            /\ toCarrier' = <<>>
            /\ UNCHANGED <<markQueue, lastAssistantItem,
                           responseStartTimestampTwilio>>
       ELSE /\ toModel' =
                  IF lastAssistantItem # "null"
                  THEN <<ModelMsg("conversation.item.truncate", lastAssistantItem,
                                  latestMediaTimestamp - responseStartTimestampTwilio,
                                  "null")>>
                  ELSE <<>>
            /\ toCarrier' = <<CarrierMsg("clear")>>
            /\ Interrupted
    /\ runFirst' = NullTs
    /\ itemMarked' = IF lastAssistantItem' = "null" THEN FALSE ELSE itemMarked
    /\ lastEvent' = "speech_started"
    /\ lastInput' = NoInput
    /\ lastCall' = NoCall
    /\ itemSocket' = IF lastAssistantItem' = "null" THEN 0 ELSE itemSocket
    /\ UNCHANGED <<configured, logVars, pureVars, toolVars, unacked, sessionSent, callSocket, lookupResult, carrierOpen, streamSid, callerPhone,
                   latestMediaTimestamp, sockets, reconnectAttempts,
                   greetingSent, initTimers, greetTimers, reconnectTimers,
                   greeting, greetingContext, pendingCalls, uncaught,
                   greetingCount>>

\* the two sends that answer a tool call, without the response.create
AnswerCall_NoResponseCreate(call) ==
    toModel' = IF SendOutcome(readyState) = "throws" THEN <<>>
               ELSE <<FunctionOutput(call)>>

\* the two sends that answer a tool call; a send that raises is caught
AnswerCall(call) ==
    toModel' = IF SendOutcome(readyState) = "throws" THEN <<>>
               ELSE <<FunctionOutput(call), ResponseCreate>>

\* what a response.function_call_arguments.done event carries: arguments
\* that do not parse, or a name and the parsed arguments
BadJson == [parses |-> FALSE, name |-> "", args |-> EmptyArgs]
Parsed(name, args) == [parses |-> TRUE, name |-> name, args |-> args]

\* a number or a string for arguments has no properties: it reads as
\* EmptyArgs does
FunctionCallInputs ==
    {BadJson,
     Parsed("lookup_patient", EmptyArgs),
     Parsed("lookup_patient", ArgsNull),
     Parsed("unknown_tool", ArgsNull)}

\* how the handler of the event goes on:
\*   "badjson"  the arguments do not parse: the error result is sent
\*   "return"   executeToolCall returns before any await
\*   "throw"    executeToolCall raises (caught by the message handler)
\*   "fetch"    executeToolCall awaits the backend: the handler is suspended
FunctionCallOutcome(input) ==
    IF ~input.parses THEN "badjson"
    ELSE executeToolCallSync(input.name, input.args, Str(callerPhone),
                             configured).step

\* response.function_call_arguments.done
FunctionCall(k, call, input) ==
    /\ Receiving(k)
    /\ call \notin pendingCalls
    /\ CASE FunctionCallOutcome(input) \in {"badjson", "return"} ->
              AnswerCall(call) /\ UNCHANGED pendingCalls
         [] FunctionCallOutcome(input) = "throw" ->
              toModel' = <<>> /\ UNCHANGED pendingCalls
         [] OTHER ->
              /\ toModel' = <<>>
              /\ pendingCalls' = pendingCalls \cup {call}
    /\ toCarrier' = <<>>
    /\ lastEvent' = "function_call"
    /\ lastInput' = NoInput
    /\ lastCall' = [call_id |-> call, outcome |-> FunctionCallOutcome(input)]
    /\ callSocket' =
          IF FunctionCallOutcome(input) \in {"badjson", "return", "throw"}
          THEN callSocket ELSE [callSocket EXCEPT ![call] = k]
    /\ UNCHANGED <<configured, logVars, pureVars, toolVars, unacked, sessionSent, itemSocket, itemMarked, lookupResult, carrierOpen, streamSid, callerPhone,
                   latestMediaTimestamp, lastAssistantItem, markQueue,
                   responseStartTimestampTwilio, sockets, reconnectAttempts,
                   greetingSent, initTimers, greetTimers, reconnectTimers,
                   greeting, greetingContext, uncaught, greetingCount,
                   runFirst>>

\* the backend answers a suspended tool call, or its timeout ends it:
\* handleFunctionCall resumes
FunctionCallDone(call) ==
    /\ call \in pendingCalls
    /\ pendingCalls' = pendingCalls \ {call}
    /\ AnswerCall(call)
    /\ toCarrier' = <<>>
    /\ lastEvent' = "function_call_done"
    /\ lastInput' = NoInput
    /\ lastCall' = [call_id |-> call, outcome |-> "resumed"]
    /\ callSocket' = [callSocket EXCEPT ![call] = 0]
    /\ UNCHANGED <<configured, logVars, pureVars, toolVars, unacked, sessionSent, itemSocket, itemMarked, lookupResult, carrierOpen, streamSid, callerPhone,
                   latestMediaTimestamp, lastAssistantItem, markQueue,
                   responseStartTimestampTwilio, sockets, reconnectAttempts,
                   greetingSent, initTimers, greetTimers, reconnectTimers,
                   greeting, greetingContext, uncaught, greetingCount,
                   runFirst>>

\* any other model message: logged, or dropped when it does not parse
ModelOther(k) ==
    /\ Receiving(k)
    /\ toModel' = <<>>
    /\ toCarrier' = <<>>
    /\ lastEvent' = "model_other"
    /\ lastInput' = NoInput
    /\ lastCall' = NoCall
    /\ UNCHANGED <<configured, logVars, pureVars, toolVars, unacked, sessionSent, itemSocket, callSocket, itemMarked, lookupResult, carrierOpen, streamSid, callerPhone,
                   latestMediaTimestamp, lastAssistantItem, markQueue,
                   responseStartTimestampTwilio, sockets, reconnectAttempts,
                   greetingSent, initTimers, greetTimers, reconnectTimers,
                   greeting, greetingContext, pendingCalls, uncaught,
                   greetingCount, runFirst>>

\* ---- carrier socket ---------------------------------------------------
\* the forwarding of an inbound frame without the test of readyState
ForwardAudio_Unconditional ==
    <<ModelMsg("input_audio_buffer.append", "null", NullTs, "null")>>

\* if (openAiWs && openAiWs.readyState === WebSocket.OPEN) openAiWs.send(...)
ForwardAudio ==
    IF readyState = "OPEN"
    THEN <<ModelMsg("input_audio_buffer.append", "null", NullTs, "null")>>
    ELSE <<>>

\* case 'media'
Media(timestamp) ==
    /\ carrierOpen
    /\ timestamp >= latestMediaTimestamp
    /\ latestMediaTimestamp' = timestamp
    /\ toModel' = ForwardAudio
    /\ toCarrier' = <<>>
    /\ lastEvent' = "media"
    /\ lastInput' = [NoInput EXCEPT !.timestamp = timestamp]
    /\ lastCall' = NoCall
    /\ UNCHANGED <<configured, logVars, pureVars, toolVars, unacked, sessionSent, itemSocket, callSocket, itemMarked, lookupResult, carrierOpen, streamSid, callerPhone,
                   lastAssistantItem, markQueue, responseStartTimestampTwilio,
                   sockets, reconnectAttempts, greetingSent, initTimers,
                   greetTimers, reconnectTimers, greeting, greetingContext,
                   pendingCalls, uncaught, greetingCount, runFirst>>

\* case 'start'; phone is customParameters.callerPhone ('' when absent).
\* The carrier sends start once per stream.
Start(sid, phone) ==
    /\ carrierOpen
    /\ streamSid = "null"
    /\ streamSid' = sid
    /\ callerPhone' = IF phone # <<>> THEN phone ELSE callerPhone
    /\ responseStartTimestampTwilio' = NullTs
    /\ latestMediaTimestamp' = 0
    /\ runFirst' = NullTs
    /\ toModel' = <<>>
    /\ toCarrier' = <<>>
    /\ lastEvent' = "start"
    /\ lastInput' = [NoInput EXCEPT !.streamSid = sid, !.callerPhone = phone]
    /\ lastCall' = NoCall
    /\ UNCHANGED <<configured, logVars, pureVars, toolVars, unacked, sessionSent, itemSocket, callSocket, itemMarked, lookupResult, carrierOpen, lastAssistantItem,
                   markQueue, sockets, reconnectAttempts, greetingSent,
                   initTimers, greetTimers, reconnectTimers, greeting,
                   greetingContext, pendingCalls, uncaught, greetingCount>>

\* case 'start' for a start message whose start object carries neither
\* streamSid nor customParameters, as in {"event":"start","start":{}}, sent in
\* place of the stream's start message: data.start.streamSid is undefined
\* (as falsy as the initial null), the optional chain skips callerPhone, and
\* the two assignments that follow are made all the same.
StartWithoutSid ==
    /\ carrierOpen
    /\ streamSid = "null"
    /\ streamSid' = "null"
    /\ responseStartTimestampTwilio' = NullTs
    /\ latestMediaTimestamp' = 0
    /\ runFirst' = NullTs
    /\ toModel' = <<>>
    /\ toCarrier' = <<>>
    /\ lastEvent' = "start_malformed"
    /\ lastInput' = NoInput
    /\ lastCall' = NoCall
    /\ UNCHANGED <<configured, logVars, pureVars, toolVars, unacked, sessionSent, itemSocket, callSocket, itemMarked, lookupResult, carrierOpen, callerPhone,
                   lastAssistantItem, markQueue, sockets, reconnectAttempts,
                   greetingSent, initTimers, greetTimers, reconnectTimers,
                   greeting, greetingContext, pendingCalls, uncaught,
                   greetingCount>>

\* a handler of 'mark' that empties the queue
Shift_All(queue) == <<>>

\* if (markQueue.length > 0) markQueue.shift()
Shift(queue) == IF Len(queue) > 0 THEN Tail(queue) ELSE queue

\* case 'mark'
Mark ==
    /\ carrierOpen
    /\ markQueue' = Shift(markQueue)
    /\ runFirst' = NullTs
    /\ toModel' = <<>>
    /\ toCarrier' = <<>>
    /\ lastEvent' = "mark"
    /\ lastInput' = NoInput
    /\ lastCall' = NoCall
    /\ unacked' = IF unacked > 0 THEN unacked - 1 ELSE 0
    /\ UNCHANGED <<configured, logVars, pureVars, toolVars, sessionSent, itemSocket, callSocket, itemMarked, lookupResult, carrierOpen, streamSid, callerPhone,
                   latestMediaTimestamp, lastAssistantItem,
                   responseStartTimestampTwilio, sockets, reconnectAttempts,
                   greetingSent, initTimers, greetTimers, reconnectTimers,
                   greeting, greetingContext, pendingCalls, uncaught,
                   greetingCount>>

\* any other carrier message, or one that does not parse
CarrierOther ==
    /\ carrierOpen
    /\ toModel' = <<>>
    /\ toCarrier' = <<>>
    /\ lastEvent' = "carrier_other"
    /\ lastInput' = NoInput
    /\ lastCall' = NoCall
    /\ UNCHANGED <<configured, logVars, pureVars, toolVars, unacked, sessionSent, itemSocket, callSocket, itemMarked, lookupResult, carrierOpen, streamSid, callerPhone,
                   latestMediaTimestamp, lastAssistantItem, markQueue,
                   responseStartTimestampTwilio, sockets, reconnectAttempts,
                   greetingSent, initTimers, greetTimers, reconnectTimers,
                   greeting, greetingContext, pendingCalls, uncaught,
                   greetingCount, runFirst>>

\* connection.on('close')
CarrierClose ==
    /\ carrierOpen
    /\ carrierOpen' = FALSE
    /\ sockets' = IF readyState = "OPEN"
                  THEN [sockets EXCEPT ![openAiWs] = "CLOSING"]
                  ELSE sockets
    /\ toModel' = <<>>
    /\ toCarrier' = <<>>
    /\ lastEvent' = "carrier_close"
    /\ lastInput' = NoInput
    /\ lastCall' = NoCall
    /\ unacked' = 0
    /\ UNCHANGED <<configured, logVars, pureVars, toolVars, sessionSent, itemSocket, callSocket, itemMarked, lookupResult, streamSid, callerPhone,
                   latestMediaTimestamp, lastAssistantItem, markQueue,
                   responseStartTimestampTwilio, reconnectAttempts,
                   greetingSent, initTimers, greetTimers, reconnectTimers,
                   greeting, greetingContext, pendingCalls, uncaught,
                   greetingCount, runFirst>>

-----------------------------------------------------------------------------
(* The /media-stream route of the call-logging, multi-business server.  It *)
(* has one model socket per call and no reconnection.  businessId and      *)
(* businessContext only choose the wording of the instructions and of the  *)
(* greeting and are left out, as are the contents of sessionData.          *)

\* a message handed to openAiWs.send by this route
clModelMsg(type) == [type |-> type, delivered |-> clWs = "OPEN"]

\* a message handed to connection.send by this route
clCarrierMsg(event) ==
    [event |-> event, streamSid |-> clStreamSid, delivered |-> clCarrierOpen]

clUnchangedPlayback ==
    UNCHANGED <<clLatestMediaTimestamp, clLastAssistantItem, clMarkQueue,
                clResponseStartTimestampTwilio>>

clUnchangedSetup ==
    UNCHANGED <<clSessionData, clInitTimers, clInitRuns, clGreetTimers,
                clSessionUpdates, clGreetings, clUncaught>>

clOthers == <<configured, pureVars, toolVars, relayVars>>

\* openAiWs.on('open'): setTimeout(initializeSession, 100)
clWsOpen ==
    /\ clWs = "CONNECTING"
    /\ clWs' = "OPEN"
    /\ clInitTimers' = clInitTimers + 1
    /\ clToModel' = <<>>
    /\ clToCarrier' = <<>>
    /\ clLastEvent' = "open"
    /\ clUnchangedPlayback
    /\ UNCHANGED <<clOthers, clCarrierOpen, clStreamSid, clCallSid,
                   clCallerPhone, clSessionData, clInitRuns, clGreetTimers,
                   clSessionUpdates, clGreetings, clUncaught>>

\* openAiWs.on('close') and on('error'): the socket is closed, by the model
\* or after the relay's own close()
clWsClose ==
    /\ clWs # "CLOSED"
    /\ clWs' = "CLOSED"
    /\ clToModel' = <<>>
    /\ clToCarrier' = <<>>
    /\ clLastEvent' = "close"
    /\ clUnchangedPlayback
    /\ clUnchangedSetup
    /\ UNCHANGED <<clOthers, clCarrierOpen, clStreamSid, clCallSid,
                   clCallerPhone>>

\* the timer set by on('open') fires: initializeSession() runs up to its
\* first await
clInitTimerFire ==
    /\ clInitTimers > 0
    /\ clInitTimers' = clInitTimers - 1
    /\ clInitRuns' = clInitRuns + 1
    /\ clToModel' = <<>>
    /\ clToCarrier' = <<>>
    /\ clLastEvent' = "init_timer"
    /\ clUnchangedPlayback
    /\ UNCHANGED <<clOthers, clWs, clCarrierOpen, clStreamSid, clCallSid,
                   clCallerPhone, clSessionData, clGreetTimers,
                   clSessionUpdates, clGreetings, clUncaught>>

\* initializeSession after its two awaits (neither lookup raises): sessionData
\* is created, session.update is sent and the greeting timer is set.  Nothing
\* awaits or catches the promise, so a send that raises leaves the function
\* before the timer is set.
clInitializeSession ==
    /\ clInitRuns > 0
    /\ clInitRuns' = clInitRuns - 1
    /\ clSessionData' = (clSessionData \/ clCallSid # "null")
    /\ CASE SendOutcome(clWs) = "throws" ->
              /\ clUncaught' = TRUE
              /\ clToModel' = <<>>
              /\ UNCHANGED <<clGreetTimers, clSessionUpdates>>
         [] SendOutcome(clWs) = "sent" ->
              /\ clToModel' = <<clModelMsg("session.update")>>
              /\ clSessionUpdates' = clSessionUpdates + 1
              /\ clGreetTimers' = clGreetTimers + 1
              /\ UNCHANGED clUncaught
         [] OTHER ->
              /\ clToModel' = <<clModelMsg("session.update")>>
              /\ clGreetTimers' = clGreetTimers + 1
              /\ UNCHANGED <<clSessionUpdates, clUncaught>>
    /\ clToCarrier' = <<>>
    /\ clLastEvent' = "initializeSession"
    /\ clUnchangedPlayback
    /\ UNCHANGED <<clOthers, clWs, clCarrierOpen, clStreamSid, clCallSid,
                   clCallerPhone, clInitTimers, clGreetings>>

\* sendInitialGreeting, from its timer
clSendInitialGreeting ==
    /\ clGreetTimers > 0
    /\ clGreetTimers' = clGreetTimers - 1
    /\ IF clWs # "OPEN"
       THEN /\ clToModel' = <<>>
            /\ UNCHANGED clGreetings
       ELSE /\ clToModel' = <<clModelMsg("conversation.item.create"),
                              clModelMsg("response.create")>>
            /\ clGreetings' = clGreetings + 1
    /\ clToCarrier' = <<>>
    /\ clLastEvent' = "sendInitialGreeting"
    /\ clUnchangedPlayback
    /\ UNCHANGED <<clOthers, clWs, clCarrierOpen, clStreamSid, clCallSid,
                   clCallerPhone, clSessionData, clInitTimers, clInitRuns,
                   clSessionUpdates, clUncaught>>

\* case 'response.audio.delta' with a payload and an item id
clAudioDelta(item) ==
    /\ clWs \in {"OPEN", "CLOSING"}
    /\ clStreamSid # "null" => Len(clMarkQueue) < MaxMarks
    /\ clResponseStartTimestampTwilio' =
          IF IsUnset(clResponseStartTimestampTwilio)
          THEN clLatestMediaTimestamp ELSE clResponseStartTimestampTwilio
    /\ clLastAssistantItem' = item
    /\ IF clStreamSid # "null"
       THEN /\ clToCarrier' = <<clCarrierMsg("media"), clCarrierMsg("mark")>>
            /\ clMarkQueue' = Append(clMarkQueue, "responsePart")
       ELSE /\ clToCarrier' = <<clCarrierMsg("media")>>
            /\ UNCHANGED clMarkQueue
    /\ clToModel' = <<>>
    /\ clLastEvent' = "response.audio.delta"
    /\ clUnchangedSetup
    /\ UNCHANGED <<clOthers, clWs, clCarrierOpen, clStreamSid, clCallSid,
                   clCallerPhone, clLatestMediaTimestamp>>

\* case 'input_audio_buffer.speech_started': handleSpeechStarted
clSpeechStarted ==
    /\ clWs \in {"OPEN", "CLOSING"}
    /\ IF Len(clMarkQueue) > 0 /\ clResponseStartTimestampTwilio # NullTs
       THEN /\ clToModel' =
                  IF clLastAssistantItem # "null"
                  THEN <<clModelMsg("conversation.item.truncate")>>
                  ELSE <<>>
            /\ clToCarrier' = <<clCarrierMsg("clear")>>
            /\ clMarkQueue' = <<>>
            /\ clLastAssistantItem' = "null"
            /\ clResponseStartTimestampTwilio' = NullTs
       ELSE /\ clToModel' = <<>>
            /\ clToCarrier' = <<>>
            /\ UNCHANGED <<clMarkQueue, clLastAssistantItem,
                           clResponseStartTimestampTwilio>>
    /\ clLastEvent' = "speech_started"
    /\ clUnchangedSetup
    /\ UNCHANGED <<clOthers, clWs, clCarrierOpen, clStreamSid, clCallSid,
                   clCallerPhone, clLatestMediaTimestamp>>

\* case 'start': the stream's start message, then initializeSession() up to
\* its first await
clStart(sid, phone) ==
    /\ clCarrierOpen
    /\ clStreamSid = "null"
    /\ clStreamSid' = sid
    /\ clCallSid' = "CA1"
    /\ clCallerPhone' = phone
    /\ clResponseStartTimestampTwilio' = NullTs
    /\ clLatestMediaTimestamp' = 0
    /\ clInitRuns' = clInitRuns + 1
    /\ clToModel' = <<>>
    /\ clToCarrier' = <<>>
    /\ clLastEvent' = "start"
    /\ UNCHANGED <<clOthers, clWs, clCarrierOpen, clLastAssistantItem,
                   clMarkQueue, clSessionData, clInitTimers, clGreetTimers,
                   clSessionUpdates, clGreetings, clUncaught>>

\* case 'media'
clMedia(timestamp) ==
    /\ clCarrierOpen
    /\ timestamp >= clLatestMediaTimestamp
    /\ clLatestMediaTimestamp' = timestamp
    /\ clToModel' = IF clWs = "OPEN"
                    THEN <<clModelMsg("input_audio_buffer.append")>>
                    ELSE <<>>
    /\ clToCarrier' = <<>>
    /\ clLastEvent' = "media"
    /\ clUnchangedSetup
    /\ UNCHANGED <<clOthers, clWs, clCarrierOpen, clStreamSid, clCallSid,
                   clCallerPhone, clLastAssistantItem, clMarkQueue,
                   clResponseStartTimestampTwilio>>

\* case 'mark'
clMark ==
    /\ clCarrierOpen
    /\ clMarkQueue' = Shift(clMarkQueue)
    /\ clToModel' = <<>>
    /\ clToCarrier' = <<>>
    /\ clLastEvent' = "mark"
    /\ clUnchangedSetup
    /\ UNCHANGED <<clOthers, clWs, clCarrierOpen, clStreamSid, clCallSid,
                   clCallerPhone, clLatestMediaTimestamp, clLastAssistantItem,
                   clResponseStartTimestampTwilio>>

\* connection.on('close')
clCarrierClose ==
    /\ clCarrierOpen
    /\ clCarrierOpen' = FALSE
    /\ clWs' = IF clWs = "OPEN" THEN "CLOSING" ELSE clWs
    /\ clToModel' = <<>>
    /\ clToCarrier' = <<>>
    /\ clLastEvent' = "carrier_close"
    /\ clUnchangedPlayback
    /\ clUnchangedSetup
    /\ UNCHANGED <<clOthers, clStreamSid, clCallSid, clCallerPhone>>

\* the state when the route's handler returns: the socket is being opened
InitLog ==
    /\ clWs = "CONNECTING"
    /\ clCarrierOpen = TRUE
    /\ clStreamSid = "null"
    /\ clCallSid = "null"
    /\ clCallerPhone = <<>>
    /\ clLatestMediaTimestamp = 0
    /\ clLastAssistantItem = "null"
    /\ clMarkQueue = <<>>
    /\ clResponseStartTimestampTwilio = NullTs
    /\ clSessionData = FALSE
    /\ clInitTimers = 0
    /\ clInitRuns = 0
    /\ clGreetTimers = 0
    /\ clSessionUpdates = 0
    /\ clGreetings = 0
    /\ clUncaught = FALSE
    /\ clToModel = <<>>
    /\ clToCarrier = <<>>
    /\ clLastEvent = "connect"

\* the state when the route's handler returns: connectToOpenAI() was called
InitRelay ==
    /\ carrierOpen = TRUE
    /\ streamSid = "null"
    /\ callerPhone = <<>>
    /\ latestMediaTimestamp = 0
    /\ lastAssistantItem = "null"
    /\ markQueue = <<>>
    /\ responseStartTimestampTwilio = NullTs
    /\ sockets = <<"CONNECTING">>
    /\ reconnectAttempts = 0
    /\ greetingSent = FALSE
    /\ initTimers = 0
    /\ greetTimers = 0
    /\ reconnectTimers = 0
    /\ greeting = "none"
    /\ greetingContext = ""
    /\ lookupResult = NoLookup
    /\ pendingCalls = {}
    /\ toModel = <<>>
    /\ toCarrier = <<>>
    /\ lastEvent = "connect"
    /\ lastCall = NoCall
    /\ lastInput = NoInput
    /\ itemMarked = FALSE
    /\ uncaught = FALSE
    /\ greetingCount = 0
    /\ runFirst = NullTs
    /\ sessionSent = FALSE
    /\ unacked = 0
    /\ itemSocket = 0
    /\ callSocket = [call \in CallIds |-> 0]

Init ==
    /\ configured \in BOOLEAN
    /\ InitPure
    /\ InitTool
    /\ InitRelay
    /\ InitLog

Next ==
    \/ \E k \in DOMAIN sockets : WsOpen(k)
    \/ \E k \in DOMAIN sockets, code \in CloseCodes : WsClose(k, code)
    \/ ReconnectTimerFire
    \/ InitTimerFire
    \/ GreetTimerFire
    \/ \E result \in LookupResults : GreetingLookupDone(result)
    \/ \E k \in DOMAIN sockets, item \in ItemIds \cup {"null"} : AudioDelta(k, item)
    \/ \E k \in DOMAIN sockets : SpeechStarted(k)
    \/ \E k \in DOMAIN sockets, call \in CallIds, input \in FunctionCallInputs :
          FunctionCall(k, call, input)
    \/ \E call \in CallIds : FunctionCallDone(call)
    \/ \E k \in DOMAIN sockets : ModelOther(k)
    \/ \E timestamp \in 0..MaxTs : Media(timestamp)
    \/ \E sid \in StreamSids, phone \in CallerParams : Start(sid, phone)
    \/ StartWithoutSid
    \/ Mark
    \/ CarrierOther
    \/ CarrierClose

Spec == Init /\ [][Next]_vars

\* what the relay does by itself happens: a timer that is set fires, and a
\* suspended executeToolCall returns (its timeout sees to that).  Nothing is
\* assumed of the carrier or of the model.
SpecFair ==
    /\ Spec
    /\ WF_vars(ReconnectTimerFire)
    /\ WF_vars(InitTimerFire)
    /\ WF_vars(GreetTimerFire)
    /\ WF_vars(\E result \in LookupResults : GreetingLookupDone(result))
    /\ WF_vars(\E call \in CallIds : FunctionCallDone(call))

ToolInit ==
    /\ configured \in BOOLEAN
    /\ InitPure
    /\ InitTool
    /\ InitRelay
    /\ InitLog

ToolNext ==
    \/ \E name \in NameInputs, args \in ArgInputs, caller \in CallerInputs :
          Invoke(name, args, caller)
    \/ \E status \in HttpStatuses, body \in BackendBodies :
          FetchResolve(status, body)
    \/ JsonResolve
    \/ JsonReject
    \/ FetchReject
    \/ TimeoutFire

SpecTool == ToolInit /\ [][ToolNext]_vars

\* the timeout is a timer of the event loop: once set it fires unless it is
\* cleared.  Nothing is assumed of the backend.
SpecToolFair == SpecTool /\ WF_vars(TimeoutFire)

-----------------------------------------------------------------------------
(* routes/incoming-call.js and the validators called on their own *)

\* (phone || '').replace(/[^+\d]/g, '') on a string or a falsy value
sanitizePhone(phone) ==
    SelectSeq((OrElse(phone, Str(<<>>))).s, LAMBDA c : c \in Digits \cup {"+"})

\* request.body?.From || request.query?.From || ''
FromOf(bodyFrom, queryFrom) == OrElse(OrElse(bodyFrom, queryFrom), Str(<<>>))

\* bounds of the inputs
MaxDigits == 17     \* digit runs of 0..MaxDigits digits

\* n digits, the first one given
DigitRun(first, n) == [i \in 1..n |-> IF i = 1 THEN first ELSE "5"]

\* s with sep put in after its first k characters
InsertAt(s, sep, k) == SubSeq(s, 1, k) \o sep \o SubSeq(s, k + 1, Len(s))

PhonePrefixes == {<<>>, <<"+">>, <<"+", "+">>, <<" ", "+">>, <<"(", "+">>, <<"a">>}
PhoneSeparators == {<<>>, <<"-">>, <<" ">>, <<"(", ")">>, <<"\t">>, <<".">>, <<"+">>}
PhoneSuffixes == {<<>>, <<" ">>, <<"\n">>, <<"x">>, <<")">>}

PhoneStrings ==
    {pre \o InsertAt(DigitRun(first, n), sep, n \div 2) \o suf :
        pre \in PhonePrefixes, first \in {"0", "1", "9"}, n \in 0..MaxDigits,
        sep \in PhoneSeparators, suf \in PhoneSuffixes}
    \cup {PhoneGood, PhoneFormatted, PhoneLeadingZero, PhoneLetters}

\* Date15 with its character at position i replaced by c
DateWith(i, c) == [Date15 EXCEPT ![i] = c]

DateStrings ==
    {pre \o DateWith(i, c) \o suf :
        pre \in {<<>>, <<" ">>, <<"2">>}, i \in 1..10,
        c \in {"0", "9", "-", "/", "a", " "},
        suf \in {<<>>, <<"\n">>, <<"5">>, <<"-">>}}
    \cup {<<>>, Date15, Date20, DateSlashes, DateWords,
          <<"0", "1", "-", "1", "5", "-", "2", "0", "2", "5">>}

\* values a caller of the validators may pass
ValidatorInputs(strings) ==
    {Undefined, Null, NonString} \cup {Str(s) : s \in strings}

\* From values: absent, a number, text with markup characters, plus signs
\* in several places, a repeated parameter (an array)
ScriptText == <<"\"", ">", "<", "S", "c", "r", "i", "p", "t", ">", "a", "l",
                "e", "r", "t", "(", "1", ")", "<", "/", "S", "c", "r", "i",
                "p", "t", ">">>
FromStrings ==
    {<<>>, PhoneGood, PhoneFormatted, ScriptText, <<"1", "+", "2">>,
     <<"+", "+", "1">>, <<" ", "+", "1", "a", "+">>, <<"'", "&", "9">>}
FromInputs == {Undefined, NonString} \cup {Str(s) : s \in FromStrings}

\* validatePhone(v) is called
CallValidatePhone(v) ==
    /\ pureFn = "none"
    /\ pureFn' = "validatePhone"
    /\ pureArg' = v
    /\ pureOut' = IF validatePhoneThrows(v) THEN "TypeError"
                  ELSE IF validatePhone(v) THEN "true" ELSE "false"
    /\ UNCHANGED <<configured, logVars, toolVars, relayVars, pureStr>>

\* validateDate(v) is called
CallValidateDate(v) ==
    /\ pureFn = "none"
    /\ pureFn' = "validateDate"
    /\ pureArg' = v
    /\ pureOut' = IF validateDate(v) THEN "true" ELSE "false"
    /\ UNCHANGED <<configured, logVars, toolVars, relayVars, pureStr>>

\* a request to /incoming-call: the handler replies with the markup, or
\* raises when From is not a string (the framework then answers 500)
IncomingCall(bodyFrom, queryFrom) ==
    /\ pureFn = "none"
    /\ pureFn' = "incoming-call"
    /\ pureArg' = FromOf(bodyFrom, queryFrom)
    /\ IF FromOf(bodyFrom, queryFrom).t # "string"
       THEN pureOut' = "TypeError" /\ pureStr' = <<>>
       ELSE /\ pureOut' = "markup"
            /\ pureStr' = sanitizePhone(FromOf(bodyFrom, queryFrom))
    /\ UNCHANGED <<configured, logVars, toolVars, relayVars>>

PureInit ==
    /\ configured \in BOOLEAN
    /\ InitPure
    /\ InitTool
    /\ InitRelay
    /\ InitLog

PureNext ==
    \/ \E v \in ValidatorInputs(PhoneStrings) : CallValidatePhone(v)
    \/ \E v \in ValidatorInputs(DateStrings) : CallValidateDate(v)
    \/ \E bodyFrom \in FromInputs, queryFrom \in FromInputs :
          IncomingCall(bodyFrom, queryFrom)

SpecPure == PureInit /\ [][PureNext]_vars

\* one call on the call-logging server
LogInit ==
    /\ configured \in BOOLEAN
    /\ InitPure
    /\ InitTool
    /\ InitRelay
    /\ InitLog

LogNext ==
    \/ clWsOpen
    \/ clWsClose
    \/ clInitTimerFire
    \/ clInitializeSession
    \/ clSendInitialGreeting
    \/ \E item \in ItemIds : clAudioDelta(item)
    \/ clSpeechStarted
    \/ \E sid \in StreamSids, phone \in {<<>>, PhoneGood} : clStart(sid, phone)
    \/ \E timestamp \in 0..MaxTs : clMedia(timestamp)
    \/ clMark
    \/ clCarrierClose

SpecLog == LogInit /\ [][LogNext]_vars

-----------------------------------------------------------------------------
(* Validators and call setup: properties, checked under SpecPure *)

\* the phone shape: with whitespace, hyphens and parentheses taken out, an
\* optional plus sign, then 7 to 15 digits of which the first is not zero
IsPhoneShape(s) ==
    LET kept == SelectSeq(s, LAMBDA c : c \notin {" ", "\t", "\n", "-", "(", ")"})
        hasPlus == kept # <<>> /\ Head(kept) = "+"
        digits == IF hasPlus THEN Tail(kept) ELSE kept
    IN  /\ Len(digits) \in 7..15
        /\ \A i \in 1..Len(digits) : digits[i] \in Digits
        /\ Head(digits) # "0"

IsDateShape(s) ==
    /\ Len(s) = 10
    /\ \A i \in 1..10 : IF i \in {5, 8} THEN s[i] = "-" ELSE s[i] \in Digits

C14_OnlyDigitsAndLeadingPlus ==
    (pureFn = "incoming-call" /\ pureOut = "markup") =>
        \A i \in 1..Len(pureStr) :
            \/ pureStr[i] \in Digits
            \/ (pureStr[i] = "+" /\ i = 1)

-----------------------------------------------------------------------------
(* Tool Executor: properties, checked under SpecTool *)

Invoked == tcPc # "idle"
NotConfiguredResult ==
    ErrorResult("Backend not configured. Please contact support.")

\* C6 as stated: an invocation with a name outside the five tools returns
\* exactly {error: 'Unknown tool'} and makes no backend request, whether or
\* not the backend is configured.
C6_UnknownToolAnyConfig ==
    (Invoked /\ tcName \notin ToolNames) =>
        /\ tcPc = "returned"
        /\ tcResult = ErrorResult("Unknown tool")
        /\ fetchCount = 0

\* C6 amended: an invocation with a name outside the five tools makes no
\* backend request and returns {error: 'Unknown tool'} when the backend is
\* configured, and the not-configured error when it is not, for every
\* argument value and caller identifier.
C6_UnknownTool ==
    (Invoked /\ tcName \notin ToolNames) =>
        /\ tcPc = "returned"
        /\ fetchCount = 0
        /\ tcBody = NoBody
        /\ tcResult = IF configured THEN ErrorResult("Unknown tool")
                                    ELSE NotConfiguredResult

C6_Witness ==
    /\ configured
    /\ tcPc = "returned"
    /\ tcName = "unknown_tool"
    /\ tcArgs = ArgsNull
    /\ tcCaller = Str(PhoneGood)
    /\ tcResult = ErrorResult("Unknown tool")

\* the case of C7: check_availability, both dates of the form YYYY-MM-DD,
\* the start date lexicographically after the end date
StartAfterEnd ==
    /\ tcName = "check_availability"
    /\ ~tcArgs.isNull
    /\ tcArgs.start_date.t = "string"
    /\ tcArgs.end_date.t = "string"
    /\ DATE_REGEX(tcArgs.start_date.s)
    /\ DATE_REGEX(tcArgs.end_date.s)
    /\ StrGreater(tcArgs.start_date.s, tcArgs.end_date.s)

PhoneFormatOk(v) == v.t = "string" /\ PHONE_REGEX(StripPhone(v.s))
DateFormatOk(v) == v.t = "string" /\ DATE_REGEX(v.s)

\* the arguments break a validation rule of the tool (the tool table)
ViolatesRule(name, args, caller) ==
    CASE name \in {"lookup_patient", "get_patient_appointments"} ->
           LET phone == OrElse(args.phone, caller)
           IN  Truthy(phone) /\ ~PhoneFormatOk(phone)
      [] name = "check_availability" ->
           \/ ~DateFormatOk(args.start_date)
           \/ ~DateFormatOk(args.end_date)
           \/ StrGreater(args.start_date.s, args.end_date.s)
      [] name = "book_appointment" ->
           LET phone == OrElse(args.patient_phone, caller)
           IN  \/ Truthy(phone) /\ ~PhoneFormatOk(phone)
               \/ ~Truthy(args.patient_name)
               \/ ~Truthy(args.appointment_date)
               \/ ~Truthy(args.reason)
      [] name = "cancel_appointment" -> ~Truthy(args.appointment_id)
      [] OTHER -> FALSE

\* C8 (on a configured backend): a recognized tool called with an arguments
\* object that breaks one of the tool's validation rules returns a
\* structured error and makes no backend request.
C8_ViolationYieldsStructuredError ==
    (/\ Invoked
     /\ configured
     /\ tcName \in ToolNames
     /\ ~tcArgs.isNull
     /\ ViolatesRule(tcName, tcArgs, tcCaller)) =>
        /\ tcPc = "returned"
        /\ tcResult.error # ""
        /\ fetchCount = 0

\* C9: with the backend not configured every invocation, whatever the tool
\* name and the arguments, returns the not-configured error without
\* validating, without building a request and without a backend request.
C9_NotConfigured ==
    (Invoked /\ ~configured) =>
        /\ tcPc = "returned"
        /\ tcResult = NotConfiguredResult
        /\ tcBody = NoBody
        /\ fetchCount = 0

\* an invocation whose arguments validation would reject, or choke on
C9_Witness ==
    /\ ~configured
    /\ tcPc = "returned"
    /\ tcName = "lookup_patient"
    /\ tcArgs.phone = Str(PhoneLetters)
    /\ validateToolArgs(tcName, tcArgs, tcCaller).error # ""
    /\ tcResult = NotConfiguredResult
    /\ fetchCount = 0

\* C10: an invocation makes at most one backend request; a request that
\* fails at the network level ends the invocation with the 'Failed to
\* execute action' error and one that times out with the 'Request timed
\* out' error; in both cases the invocation has returned (it did not
\* throw) and no second request was made.
C10_OneRequestNoRetry ==
    /\ fetchCount <= 1
    /\ (fetchCount = 1) => (configured /\ tcPc # "threw")
    /\ (tcError = "TypeError") =>
          (tcPc = "returned" /\ tcResult = FailedResult /\ fetchCount = 1)
    /\ (tcError = "AbortError") =>
          (tcPc = "returned" /\ tcResult = TimedOutResult /\ fetchCount = 1)

C10_Witness ==
    /\ tcPc = "returned"
    /\ tcName = "lookup_patient"
    /\ tcError = "AbortError"
    /\ tcResult = TimedOutResult
    /\ fetchCount = 1

\* the invocation is waiting for the backend
AwaitingBackend == tcPc \in {"fetch", "json"}

-----------------------------------------------------------------------------
(* Media-stream route: properties, checked under Spec *)

\* the case of C1: the carrier leg and the current model socket are open, the
\* stream id is set, and a run of audio chunks carrying an item id, which
\* began with no marker pending and was interleaved with inbound media
\* frames only, has markers pending
RunPending ==
    /\ carrierOpen
    /\ readyState = "OPEN"
    /\ streamSid # "null"
    /\ runFirst # NullTs
    /\ Len(markQueue) > 0

\* C1 as stated: when speech_started is handled after such a run, exactly
\* one conversation.item.truncate is sent, its audio_end_ms is the latest
\* inbound timestamp minus the value latestMediaTimestamp had when the first
\* chunk of the run was handled, and markQueue is empty afterwards.
C1_BargeInElapsedFromFirstChunk ==
    [][(lastEvent' = "speech_started" /\ RunPending) =>
          /\ Len(toModel') = 1
          /\ toModel'[1].type = "conversation.item.truncate"
          /\ toModel'[1].delivered
          /\ toModel'[1].audio_end_ms = latestMediaTimestamp - runFirst
          /\ markQueue' = <<>>]_vars

\* C2: speech_started handled while markQueue is empty sends nothing to the
\* model (no truncate) and nothing to the carrier (no clear) and leaves
\* streamSid, markQueue, lastAssistantItem, responseStartTimestampTwilio and
\* latestMediaTimestamp as they were.
C2_BargeInNoOp ==
    [][(lastEvent' = "speech_started" /\ markQueue = <<>>) =>
          /\ toModel' = <<>>
          /\ toCarrier' = <<>>
          /\ UNCHANGED <<streamSid, markQueue, lastAssistantItem,
                         responseStartTimestampTwilio, latestMediaTimestamp>>]_vars

\* speech_started was a no-op although audio of an item had been sent: all
\* its markers were acknowledged
C2_Witness ==
    /\ lastEvent = "speech_started"
    /\ markQueue = <<>>
    /\ streamSid # "null"
    /\ lastAssistantItem # "null"
    /\ responseStartTimestampTwilio # NullTs
    /\ toModel = <<>>
    /\ toCarrier = <<>>

\* C3: reconnectAttempts never decreases and never exceeds MAX_RECONNECTS;
\* every attempt is one pending reconnect timer or one socket created after
\* the first, so at most MAX_RECONNECTS + 1 sockets are ever created; once
\* the budget is used up no closure schedules another connection.
C3_ReconnectionBound ==
    /\ [](/\ reconnectAttempts <= MAX_RECONNECTS
          /\ Len(sockets) + reconnectTimers = reconnectAttempts + 1
          /\ Len(sockets) <= MAX_RECONNECTS + 1)
    /\ [][/\ reconnectAttempts' >= reconnectAttempts
          /\ reconnectAttempts = MAX_RECONNECTS =>
                (reconnectTimers' <= reconnectTimers /\
                 Len(sockets') + reconnectTimers' = Len(sockets) + reconnectTimers)]_vars

\* the third socket closed abnormally and nothing was scheduled
C3_Witness ==
    /\ lastEvent = "close_abnormal"
    /\ reconnectAttempts = MAX_RECONNECTS
    /\ Len(sockets) = MAX_RECONNECTS + 1
    /\ \A k \in DOMAIN sockets : sockets[k] = "CLOSED"
    /\ reconnectTimers = 0

\* sendInitialGreeting has run to its end
GreetingOver == greetingSent /\ greetTimers = 0 /\ greeting # "lookup"

\* the current model socket is open and its initializeSession has run
SessionLive == readyState = "OPEN" /\ initTimers = 0

\* C4 as stated: the greeting is never delivered twice, and in a call whose
\* carrier leg is open, whose current model socket is open and initialized
\* and whose greeting procedure has run, the greeting was delivered exactly
\* once, whatever closes and reconnections fell in between.
C4_GreetingExactlyOnce ==
    /\ greetingCount <= 1
    /\ (carrierOpen /\ GreetingOver /\ SessionLive) => greetingCount = 1

\* C5 as stated (its first half): once the carrier connection has closed no
\* model socket is created.
C5_NoConnectAfterCarrierClose ==
    [][~carrierOpen => Len(sockets') = Len(sockets)]_vars

\* C15 as stated: a greeting built after a lookup names the caller exactly
\* when the lookup's result reports the patient as found, and otherwise uses
\* the not-in-system or the could-not-look-up wording; a greeting built
\* without a lookup (no caller identifier, or no configured backend) uses
\* the generic wording.
C15_NamedIffFound ==
    (greeting = "done") =>
        /\ (lookupResult = NoLookup) <=> (greetingContext = "generic")
        /\ (lookupResult # NoLookup) =>
              /\ (greetingContext = "named") <=> lookupResult.found
              /\ greetingContext \in {"named", "not_in_system", "could_not_look_up"}

\* the last step was the handler of a function-call event on the current,
\* open model socket
FunctionCallHandled ==
    /\ lastEvent = "function_call"
    /\ readyState = "OPEN"

\* C16: a function-call event whose arguments do not parse suspends no tool
\* call at the backend, and the relay hands the model socket exactly two
\* messages: a function_call_output with the event's call_id, then a
\* response.create; both are transmitted when the socket is open.
C16_BadJsonAnswered ==
    [][(lastEvent' = "function_call" /\ lastCall'.outcome = "badjson") =>
          /\ pendingCalls' = pendingCalls
          /\ Len(toModel') = 2
          /\ toModel'[1].type = "conversation.item.create:function_call_output"
          /\ toModel'[1].call_id = lastCall'.call_id
          /\ toModel'[2].type = "response.create"
          /\ (readyState = "OPEN") =>
                (toModel'[1].delivered /\ toModel'[2].delivered)]_vars

C16_Witness ==
    /\ FunctionCallHandled
    /\ lastCall.outcome = "badjson"
    /\ lastCall.call_id \in CallIds
    /\ Len(toModel) = 2
    /\ toModel[1].call_id = lastCall.call_id
    /\ toModel[1].delivered
    /\ toModel[2].delivered
    /\ pendingCalls = {}

\* the handlers that begin to handle a model message
ModelEvents ==
    {"response.audio.delta", "speech_started", "function_call", "model_other"}

\* C17 as stated: while the handler of a function-call event is suspended
\* at the backend no handler of a later model message begins.
C17_NoHandlingWhileSuspended ==
    [][(pendingCalls # {}) => (lastEvent' \notin ModelEvents)]_vars

\* C18 as stated (the part that holds of single steps): the handler of a
\* function-call event received on the open model socket either answers the
\* call at once, with a function_call_output of the same call_id followed
\* by a response.create, or leaves the call suspended at the backend to be
\* answered later; no call is dropped unanswered.
C18_EveryCallAnswered ==
    [][(lastEvent' = "function_call" /\ readyState = "OPEN") =>
          \/ lastCall'.call_id \in pendingCalls'
          \/ /\ Len(toModel') = 2
             /\ toModel'[1].type = "conversation.item.create:function_call_output"
             /\ toModel'[1].call_id = lastCall'.call_id
             /\ toModel'[2].type = "response.create"]_vars

\* C19 as stated: no exception leaves a handler or a timer callback uncaught.
C19_NothingUncaught == ~uncaught

\* C20: the step that handles speech_started either leaves markQueue,
\* lastAssistantItem and responseStartTimestampTwilio all as they were, or
\* leaves markQueue empty and the other two null; every other handler sees
\* these three before or after the interruption, never in between.
C20_InterruptionAtomic ==
    [][(lastEvent' = "speech_started") =>
          \/ UNCHANGED <<markQueue, lastAssistantItem,
                         responseStartTimestampTwilio>>
          \/ /\ markQueue' = <<>>
             /\ lastAssistantItem' = "null"
             /\ responseStartTimestampTwilio' = NullTs]_vars

\* an interruption took place: the truncate and the clear were sent
C20_Witness ==
    /\ lastEvent = "speech_started"
    /\ Len(toModel) = 1
    /\ toModel[1].type = "conversation.item.truncate"
    /\ Len(toCarrier) = 1
    /\ markQueue = <<>>
    /\ lastAssistantItem = "null"
    /\ responseStartTimestampTwilio = NullTs

\* C21 as stated: whenever lastAssistantItem is set, markQueue is non-empty
\* or has been non-empty since lastAssistantItem was last set.
C21_ItemImpliesMarker ==
    (lastAssistantItem # "null") => (markQueue # <<>> \/ itemMarked)

\* C22 as stated: the handler of an audio chunk sends the carrier exactly
\* one media frame and one mark, both carrying a stream id that is set, and
\* markQueue grows by one.
C22_OneFrameOneMark ==
    [][(lastEvent' = "response.audio.delta") =>
          /\ Len(toCarrier') = 2
          /\ toCarrier'[1].event = "media"
          /\ toCarrier'[2].event = "mark"
          /\ toCarrier'[1].streamSid # "null"
          /\ toCarrier'[2].streamSid # "null"
          /\ Len(markQueue') = Len(markQueue) + 1]_vars

\* C23 as stated: during a run of chunks of an item that began when no
\* marker was pending, responseStartTimestampTwilio is the inbound timestamp
\* at the first chunk of the run; and it is null when the stream has started
\* and no marker is pending.
C23_LatchDescribesUtterance ==
    /\ (runFirst # NullTs) => (responseStartTimestampTwilio = runFirst)
    /\ (streamSid # "null" /\ markQueue = <<>>) =>
          (responseStartTimestampTwilio = NullTs)

\* C24 as stated: in the state a start message leaves, streamSid and
\* callerPhone are the message's, latestMediaTimestamp is 0,
\* responseStartTimestampTwilio is null, markQueue is empty and
\* lastAssistantItem is null.
C24_StartResetsPlayback ==
    (lastEvent = "start") =>
        /\ streamSid = lastInput.streamSid
        /\ callerPhone = lastInput.callerPhone
        /\ latestMediaTimestamp = 0
        /\ responseStartTimestampTwilio = NullTs
        /\ markQueue = <<>>
        /\ lastAssistantItem = "null"

\* C25: the handler of an inbound frame sets latestMediaTimestamp to the
\* frame's timestamp whatever the state of the model socket, and hands the
\* current model socket one input_audio_buffer.append, transmitted, exactly
\* when that socket is open; no other step sends an append, so a frame that
\* found the socket connecting, closing or closed is never sent later.
C25_ForwardIffOpen ==
    [][/\ (lastEvent' = "media") =>
             /\ latestMediaTimestamp' = lastInput'.timestamp
             /\ (readyState = "OPEN") =>
                   /\ Len(toModel') = 1
                   /\ toModel'[1].type = "input_audio_buffer.append"
                   /\ toModel'[1].ws = openAiWs
                   /\ toModel'[1].delivered
             /\ (readyState # "OPEN") => (toModel' = <<>>)
       /\ \A i \in 1..Len(toModel') :
             (toModel'[i].type = "input_audio_buffer.append") =>
                (lastEvent' = "media" /\ readyState = "OPEN")]_vars

\* a frame arrived while the replacement socket was connecting: the
\* timestamp was taken, nothing was sent
C25_Witness ==
    /\ lastEvent = "media"
    /\ Len(sockets) = 2
    /\ readyState = "CONNECTING"
    /\ latestMediaTimestamp = 1
    /\ lastInput.timestamp = 1
    /\ toModel = <<>>

\* C26: the handler of a playback acknowledgement removes the head of
\* markQueue when there is one and otherwise leaves the queue empty; it
\* sends nothing and changes nothing else of the call.
C26_MarkPopsOne ==
    [][(lastEvent' = "mark") =>
          /\ markQueue # <<>> =>
                (/\ Len(markQueue') = Len(markQueue) - 1
                 /\ markQueue' = Tail(markQueue))
          /\ markQueue = <<>> => markQueue' = <<>>
          /\ toModel' = <<>>
          /\ toCarrier' = <<>>
          /\ UNCHANGED <<carrierOpen, streamSid, callerPhone,
                         latestMediaTimestamp, lastAssistantItem,
                         responseStartTimestampTwilio, sockets,
                         reconnectAttempts, greetingSent, initTimers,
                         greetTimers, reconnectTimers, greeting,
                         greetingContext, pendingCalls>>]_vars

\* one of two pending markers was acknowledged
C26_Witness ==
    /\ lastEvent = "mark"
    /\ markQueue = <<"responsePart">>
    /\ lastAssistantItem # "null"
    /\ responseStartTimestampTwilio # NullTs

\* C27: a closure of a model socket with code 1000 schedules no
\* reconnection and uses up no attempt, whatever the budget left; a closure
\* with any other code while the carrier leg is open and attempts remain
\* schedules exactly one reconnection and uses up one attempt.
C27_ReconnectByCode ==
    [][/\ (lastEvent' = "close_normal") =>
             UNCHANGED <<reconnectAttempts, reconnectTimers>>
       /\ (/\ lastEvent' = "close_abnormal"
           /\ carrierOpen
           /\ reconnectAttempts < MAX_RECONNECTS) =>
             /\ reconnectTimers' = reconnectTimers + 1
             /\ reconnectAttempts' = reconnectAttempts + 1]_vars

\* the second socket closed normally with an attempt left: nothing scheduled
C27_Witness ==
    /\ lastEvent = "close_normal"
    /\ carrierOpen
    /\ Len(sockets) = 2
    /\ readyState = "CLOSED"
    /\ reconnectAttempts = 1
    /\ reconnectTimers = 0

\* C30 as stated: a call whose start message carried a caller identifier,
\* on a configured backend, is not greeted with the generic wording.
C30_GenericOnlyWithoutCaller ==
    (greeting = "done" /\ configured /\ callerPhone # <<>>) =>
        (greetingContext # "generic" /\ lookupResult # NoLookup)

\* the current model socket has closed and no reconnection is scheduled
ModelGone == readyState = "CLOSED" /\ reconnectTimers = 0

\* C28 as stated: when the model socket has closed for good while the
\* carrier leg is open, the carrier connection is eventually closed.
C28_CarrierEventuallyClosed ==
    (ModelGone /\ carrierOpen) ~> ~carrierOpen

\* the fields of the call state
callState ==
    <<streamSid, callerPhone, latestMediaTimestamp, lastAssistantItem,
      markQueue, responseStartTimestampTwilio, reconnectAttempts,
      greetingSent>>

\* C29 as stated: a message that does not parse, or that lacks the fields of
\* its event type, is dropped: nothing is sent on either socket and no field
\* of the call state changes.
C29_MalformedDropped ==
    [][lastEvent' \in {"carrier_other", "model_other", "start_malformed"}
       => /\ toModel' = <<>>
          /\ toCarrier' = <<>>
          /\ UNCHANGED callState]_vars

\* C31 as stated: in the call-logging server a call sends one session.update
\* and one greeting at most, and never sends on a socket that is still
\* connecting.
C31_OneSessionOneGreeting ==
    /\ clSessionUpdates <= 1
    /\ clGreetings <= 1
    /\ ~clUncaught

\* C32 as stated: a book_appointment request is made only when patient_name,
\* a phone (patient_phone or else the caller identifier), appointment_date
\* and reason are all non-empty.
C32_BookingNeedsFourInputs ==
    (tcName = "book_appointment" /\ fetchCount > 0)
    => /\ Truthy(tcArgs.patient_name)
       /\ Truthy(OrElse(tcArgs.patient_phone, tcCaller))
       /\ Truthy(tcArgs.appointment_date)
       /\ Truthy(tcArgs.reason)

\* C33 as stated: the body sent for a recognized tool carries the action of
\* that tool, the business id and the fields of the action.
C33_BodyCarriesAction ==
    (fetchCount > 0 /\ tcName \in ToolNames)
    => /\ tcBody.action = tcName
       /\ tcBody.business_id = BusinessId
       /\ tcName = "check_availability"
             => tcBody.from = tcArgs.start_date /\ tcBody.to = tcArgs.end_date
       /\ tcName = "cancel_appointment"
             => tcBody.appointment_id = tcArgs.appointment_id
       /\ tcName \in {"lookup_patient", "get_patient_appointments"}
             => OrElse(tcArgs.phone, tcCaller)
                   \in {tcBody.phone, tcBody.caller_phone}
       /\ tcName = "book_appointment"
             => tcBody.phone = OrElse(tcArgs.patient_phone, tcCaller)

\* C34 as stated: when the backend answered with a status outside 200..299,
\* the value executeToolCall returns has an error property.
C34_Non2xxIsError ==
    (tcPc = "returned" /\ tcResp # NoResponse /\ tcResp.status \notin 200..299)
    => tcResult.error # ""

\* C35 as stated: a conversation.item.truncate reaches the model on the
\* socket that delivered the item it names, and the function_call_output of
\* a tool call that was suspended at the backend on the socket that
\* delivered the call.
C35_SessionScopedIds ==
    [][\A i \in 1..Len(toModel') :
          toModel'[i].delivered
          => /\ toModel'[i].type = "conversation.item.truncate"
                   => toModel'[i].ws = itemSocket
             /\ (lastEvent' = "function_call_done"
                    /\ toModel'[i].call_id # "null")
                   => toModel'[i].ws = callSocket[toModel'[i].call_id]]_vars

\* C36 as stated: the first message that reaches the model on a socket is
\* session.update.
C36_SessionUpdateFirst ==
    [][(toModel' # <<>> /\ toModel'[1].delivered /\ ~sessionSent)
       => toModel'[1].type = "session.update"]_vars

\* C37 as stated: an acknowledgement removes only the marker of the chunk it
\* acknowledges.  markQueue holds the markers of the Len(markQueue) marks
\* sent last and the carrier acknowledges the oldest mark, so when more
\* marks are unacknowledged than markers are queued the acknowledged mark
\* was sent before an interruption and no marker is removed.
C37_AckRemovesOwnMarker ==
    [][(lastEvent' = "mark" /\ unacked > Len(markQueue))
       => markQueue' = markQueue]_vars

\* C38: a model socket that is connecting or open is the one openAiWs
\* designates, so at most one is; every earlier socket has closed.
C38_OneLiveSocket ==
    \A k \in DOMAIN sockets :
        sockets[k] \in {"CONNECTING", "OPEN"} => k = openAiWs

\* a replacement socket is open after the first one closed
C38_Witness ==
    Len(sockets) >= 2 /\ readyState = "OPEN" /\ sockets[1] = "CLOSED"

====
